---- MODULE Spec2Model ----
(***************************************************************************)
(* Model of nodeadm's EC2 instance condition waiter                         *)
(* (nodeadm/internal/aws/ec2/instance_waiter.go) and of the containerd      *)
(* daemon's lifecycle methods (nodeadm/internal/containerd/daemon.go).      *)
(*                                                                         *)
(* Durations are whole seconds.  The clock `now` starts at 0 when the       *)
(* waiter is entered, so the context deadline set by context.WithTimeout    *)
(* is the instant maxWaitDur.  Only the DescribeInstances call and the      *)
(* backoff sleep take time.                                                 *)
(***************************************************************************)
EXTENDS Integers, Sequences, FiniteSets, TLC

\* ------------------------------------------------------------------ bounds
MaxBudget == 3      \* maxWaitDur ranges over -1 .. MaxBudget
MaxApiDur == 1      \* one DescribeInstances call takes 0 .. MaxApiDur
MaxAttempts == 3    \* API calls made by one WaitForOutput are capped here
MaxOptDelay == 1    \* an option function sets a delay in -1 .. MaxOptDelay
MaxStubN == 1       \* scripted clients fail 0 .. MaxStubN times first
MaxFragments == 2   \* a merge is given 1 .. MaxFragments fragments

\* ------------------------------------------------------- program constants
DefaultMinDelay == 15     \* 15 * time.Second
DefaultMaxDelay == 120    \* 120 * time.Second

Min2(a, b) == IF a <= b THEN a ELSE b

\* ------------------------------------------------------------ error values
\* A Go error value: its message, the class the SDK's retry classifiers put
\* it in ("none" for errors that never meet them), the API call that
\* produced it (0 if none) and the message of the error it wraps ("" if none).
MkErr(msg, class, call, wraps) ==
    [msg |-> msg, class |-> class, call |-> call, wraps |-> wraps]

NilErr == MkErr("<nil>", "none", 0, "")

ErrMaxWait ==
    MkErr("maximum wait time for waiter must be greater than zero", "none", 0, "")

ErrMinGtMax ==
    MkErr("minimum waiter delay must be lesser than or equal to maximum waiter delay",
          "none", 0, "")

ErrExceeded ==
    MkErr("exceeded max wait time for InstanceCondition waiter", "none", 0, "")

ErrComputeDelay(e) ==
    MkErr("error computing waiter delay", "none", 0, e.msg)

ErrCancelled(ctxErr) ==
    MkErr("request cancelled while waiting", "none", 0, ctxErr.msg)

ErrMinDelayZero ==
    MkErr("minDelay must be greater than zero when computing Delay", "none", 0, "")

ErrMaxDelayZero ==
    MkErr("maxDelay must be greater than zero when computing Delay", "none", 0, "")

CtxCanceled == MkErr("context canceled", "none", 0, "")

CtxDeadlineExceeded == MkErr("context deadline exceeded", "none", 0, "")

\* The error the k-th DescribeInstances call returned, of the given class.
ApiErr(class, k) == MkErr("DescribeInstances failed", class, k, "")

\* The error the condition returned on the response of the k-th call.
CondErr(k) == MkErr("condition failed", "none", k, "")

ErrorClasses == {"timeout", "retryable", "terminal"}

\* *ec2.DescribeInstancesOutput: nil, or the response of the k-th call.
Resp(k) == [call |-> k]

NilOut == Resp(0)

ret(o, e) == [out |-> o, err |-> e]

NoResult == ret(NilOut, MkErr("<not returned>", "none", 0, ""))

\* ----------------------------------------------------------------- options
\* InstanceConditionWaiterOptions, the two fields the waiter's control flow
\* reads.
MkOptions(minDelay, maxDelay) == [MinDelay |-> minDelay, MaxDelay |-> maxDelay]

\* A functional option func(*InstanceConditionWaiterOptions) (or the
\* composition of a list of them): it may assign MinDelay and may assign
\* MaxDelay.
OptFns ==
    {f \in [setMin : BOOLEAN, min : (-1)..MaxOptDelay,
            setMax : BOOLEAN, max : (-1)..MaxOptDelay] :
        /\ (~f.setMin => f.min = 0)
        /\ (~f.setMax => f.max = 0)}

NoOptFn == [setMin |-> FALSE, min |-> 0, setMax |-> FALSE, max |-> 0]

\* The option functions the constructor is given: each field is left alone
\* or set to the largest delay.
CtorFns ==
    {f \in OptFns : (f.setMin => f.min = MaxOptDelay)
                    /\ (f.setMax => f.max = MaxOptDelay)}

\* fn(&options)
ApplyOptFn(fn, o) ==
    MkOptions(IF fn.setMin THEN fn.min ELSE o.MinDelay,
              IF fn.setMax THEN fn.max ELSE o.MaxDelay)

\* NewInstanceConditionWaiter: the defaults, then the option functions.
NewInstanceConditionWaiter(fn) ==
    ApplyOptFn(fn, MkOptions(DefaultMinDelay, DefaultMaxDelay))

\* Mutant of MaxWaitInvalid: zero is let through.
MaxWaitInvalidStrict(d) == d < 0

\* WaitForOutput, `maxWaitDur <= 0`.
MaxWaitInvalid(d) == d <= 0

\* Mutant of ResolveOptions: a MaxDelay <= 0 is kept as it is.
ResolveOptionsNoDefault(wopts, fn) == ApplyOptFn(fn, wopts)

\* WaitForOutput: a copy of w.options, the per-call option functions, then
\* MaxDelay <= 0 replaced by the default.
ResolveOptions(wopts, fn) ==
    LET o == ApplyOptFn(fn, wopts)
    IN  IF o.MaxDelay <= 0 THEN MkOptions(o.MinDelay, DefaultMaxDelay) ELSE o

\* WaitForOutput, `options.MinDelay > options.MaxDelay`.
DelayOrderInvalid(o) == o.MinDelay > o.MaxDelay

\* -------------------------------------------------------- retry classifier
\* timeouts.IsErrorTimeout(err).Bool()
IsErrorTimeout(e) == e.class = "timeout"

\* retryables.IsErrorRetryable(err).Bool()
IsErrorRetryable(e) == e.class = "retryable"

\* Mutant of isErrorRetryable: the timeout classifier is not asked.
isErrorRetryableNoTimeout(e) ==
    IF e # NilErr
    THEN IF IsErrorRetryable(e) THEN TRUE ELSE FALSE
    ELSE TRUE

\* Mutant of isErrorRetryable: every error is retried.
isErrorRetryableAlways(e) == TRUE

isErrorRetryable(e) ==
    IF e # NilErr
    THEN IF IsErrorTimeout(e) THEN TRUE
         ELSE IF IsErrorRetryable(e) THEN TRUE
         ELSE FALSE
    ELSE TRUE

\* ------------------------------------------------------------ backoff delay
\* Go's integer division truncates toward zero.
GoDiv(a, b) ==
    IF (a >= 0) = (b > 0)
    THEN (IF a >= 0 THEN a ELSE -a) \div (IF b > 0 THEN b ELSE -b)
    ELSE -((IF a >= 0 THEN a ELSE -a) \div (IF b > 0 THEN b ELSE -b))

RECURSIVE Log2Floor(_)
Log2Floor(n) == IF n < 2 THEN 0 ELSE 1 + Log2Floor(n \div 2)

\* smithy-go waiter.ComputeDelay, before jitter: the exponential delay of
\* the attempt, or maxDelay past the attempt ceiling
\*   int64(math.Log(float64(maxDelay/minDelay))/math.Log(2) + 1).
\* For a negative quotient the logarithm is NaN and Go leaves the result of
\* the conversion to the implementation, so both branches can be taken; for
\* a zero quotient it is -Inf, which every port converts to the least int64.
BaseDelays(attempt, minDelay, maxDelay) ==
    LET q == GoDiv(maxDelay, minDelay)
    IN  IF q > 0
        THEN {IF attempt > Log2Floor(q) + 1
              THEN maxDelay ELSE minDelay * 2^(attempt - 1)}
        ELSE IF q = 0 THEN {maxDelay}
        ELSE {maxDelay, minDelay * 2^(attempt - 1)}

\* The result of one ComputeDelay call.
DelayResult(d, e, p) == [delay |-> d, err |-> e, panic |-> p]

\* The "last attempt" adjustment that ends ComputeDelay.
LastAttemptAdjust(delay, minDelay, remainingTime) ==
    IF remainingTime - delay <= minDelay THEN remainingTime - minDelay ELSE delay

\* smithy-go waiter.ComputeDelay(attempt, minDelay, maxDelay, remainingTime):
\* every result it can give.  The jitter draws d uniformly from
\* [0, delay-minDelay); crypto/rand's Int panics when that bound is <= 0.
ComputeDelay(attempt, minDelay, maxDelay, remainingTime) ==
    IF attempt <= 0 THEN {DelayResult(0, NilErr, FALSE)}
    ELSE IF remainingTime <= 0 THEN {DelayResult(0, NilErr, FALSE)}
    ELSE IF minDelay = 0 THEN {DelayResult(0, ErrMinDelayZero, FALSE)}
    ELSE IF maxDelay = 0 THEN {DelayResult(0, ErrMaxDelayZero, FALSE)}
    ELSE UNION {
           IF b = minDelay
           THEN {DelayResult(LastAttemptAdjust(b, minDelay, remainingTime),
                             NilErr, FALSE)}
           ELSE IF b - minDelay <= 0
           THEN {DelayResult(0, NilErr, TRUE)}
           ELSE {DelayResult(LastAttemptAdjust(d + minDelay, minDelay, remainingTime),
                             NilErr, FALSE) : d \in 0..(b - minDelay - 1)}
           : b \in BaseDelays(attempt, minDelay, maxDelay)}

\* smithy-go time.SleepWithContext(ctx, dur): a select between a timer of
\* dur and ctx.Done().  Given the context's error so far (NilErr while it is
\* not done), the clock and the deadline, every [err, now] it can return
\* with.  A context that is already done wins against a pending timer; when
\* the timer is ready too (dur <= 0) the select picks either.  The deadline
\* was set before the loop and the timer is started after the call, so a
\* timer that is due at the deadline loses to it.
SleepWithContext(ctxe, dur, t, deadline) ==
    LET timerAt == t + (IF dur > 0 THEN dur ELSE 0)
    IN  IF ctxe # NilErr
        THEN {[err |-> ctxe, now |-> t]}
             \cup (IF dur <= 0 THEN {[err |-> NilErr, now |-> t]} ELSE {})
        ELSE IF timerAt < deadline
        THEN {[err |-> NilErr, now |-> timerAt]}
        ELSE {[err |-> CtxDeadlineExceeded, now |-> deadline]}

\* ------------------------------------------------------------------ client
\* The DescribeInstances client and the caller's condition.  The free client
\* answers every call with any response or error, and the condition with
\* any verdict; the scripted client n fails its first n calls with a
\* retryable error and then answers with a response the condition accepts.
FreeClient == [scripted |-> FALSE, failN |-> 0]

StubClient(n) == [scripted |-> TRUE, failN |-> n]

Clients == {FreeClient} \cup {StubClient(n) : n \in 0..MaxStubN}

\* What the k-th call returns: [out, err, cond], cond being the condition's
\* verdict on out ("none" when there is no response to evaluate).
CallOutcomes(c, k) ==
    IF c.scripted
    THEN IF k <= c.failN
         THEN {[out |-> NilOut, err |-> ApiErr("retryable", k), cond |-> "none"]}
         ELSE {[out |-> Resp(k), err |-> NilErr, cond |-> "true"]}
    ELSE {[out |-> NilOut, err |-> ApiErr(cl, k), cond |-> "none"] : cl \in ErrorClasses}
         \cup {[out |-> Resp(k), err |-> NilErr, cond |-> v] :
                  v \in {"true", "false", "error"}}

\* ------------------------------------------------------------ waiter state
VARIABLES
    wOptions,       \* w.options, set by NewInstanceConditionWaiter
    ctorFn,         \* the option functions given to the constructor
    client,         \* w.client together with w.condition
    maxWaitDur,     \* argument of WaitForOutput
    callFn,         \* the option functions given to WaitForOutput
    options,        \* WaitForOutput's local options
    pc,             \* "idle", "call", "inflight", "sleep", "done", "panicked"
    now,            \* the clock
    start,          \* start := time.Now()
    remainingTime,
    attempt,
    out,            \* out, err := w.client.DescribeInstances(...)
    err,
    conditionMet,   \* the condition's verdict in this iteration, or "none"
    delay,          \* the delay ComputeDelay returned last
    result,         \* what WaitForOutput returned
    ctxErr,         \* ctx.Err() of the context made by context.WithTimeout
    cancelled,      \* the caller cancelled its context
    cancelPc,       \* where WaitForOutput was when the caller cancelled
    callsAtCancel,  \* the API calls issued before the caller cancelled
    calls,          \* DescribeInstances calls issued
    sleeps,         \* backoff sleeps started
    sumDelays       \* sum of the delays ComputeDelay returned

wvars == <<wOptions, ctorFn, client, maxWaitDur, callFn, options, pc, now, start,
           remainingTime, attempt, out, err, conditionMet, delay, result, ctxErr,
           cancelled, cancelPc, callsAtCancel, calls, sleeps, sumDelays>>

\* ------------------------------------------------- containerd daemon state
ContainerdDaemonName == "containerd"

SociSnapshotterSocketName == "soci-snapshotter.socket"

\* api.FastContainerImagePull, the feature gate's name.
FastContainerImagePull == "fast-image-pull"

\* The gate names a NodeConfig may carry.
GateNames == {FastContainerImagePull, "other-gate"}

\* cfg.Spec.FeatureGates: a map from some gate names to booleans (the nil
\* map reads as the empty one).
GateSets == UNION {[S -> BOOLEAN] : S \in SUBSET GateNames}

\* api.IsFeatureEnabled(feature, gates): the gate's value, false when the
\* gate is absent.
IsFeatureEnabled(feature, gates) ==
    feature \in DOMAIN gates /\ gates[feature]

\* ----------------------------------------------------------- config composer
\* A config fragment is a nested key/value tree: a scalar leaf, or a table
\* from keys to trees.
Leaf(v) == [leaf |-> v]

Table(f) == [tab |-> f]

\* A fragment that does not parse.
Malformed == [malformed |-> TRUE]

IsTable(t) == "tab" \in DOMAIN t

IsLeaf(t) == "leaf" \in DOMAIN t

EmptyDoc == Table(<<>>)

\* The error Merge returns for a malformed fragment, naming its position.
ErrMalformed(i) == MkErr("malformed config fragment", "none", 0, ToString(i))

\* Mutant of MergeTrees: a table of the later fragment replaces the earlier
\* one wholesale.
MergeTreesReplace(a, b) == b

\* Merging the tree b over the tree a: two tables are merged key by key, a
\* key of both recursively; in every other case the later tree replaces the
\* earlier one.
RECURSIVE MergeTrees(_, _)
MergeTrees(a, b) ==
    IF IsTable(a) /\ IsTable(b)
    THEN Table([k \in (DOMAIN a.tab) \cup (DOMAIN b.tab) |->
                  IF k \in DOMAIN a.tab /\ k \in DOMAIN b.tab
                  THEN MergeTrees(a.tab[k], b.tab[k])
                  ELSE IF k \in DOMAIN b.tab THEN b.tab[k]
                  ELSE a.tab[k]])
    ELSE b

\* The result of a merge: the document, or the error.
MergeResult(doc, e) == [doc |-> doc, err |-> e]

NoMerge == MergeResult(EmptyDoc, MkErr("<not returned>", "none", 0, ""))

\* Folding the fragments i.. of the list over the document so far.
RECURSIVE MergeFrom(_, _, _)
MergeFrom(doc, frags, i) ==
    IF i > Len(frags) THEN MergeResult(doc, NilErr)
    ELSE IF ~IsTable(frags[i]) THEN MergeResult(EmptyDoc, ErrMalformed(i))
    ELSE MergeFrom(MergeTrees(doc, frags[i]), frags, i + 1)

\* Merge(base, overlays...): frags is the base followed by the overlays, in
\* the order they are merged.
Merge(frags) == MergeFrom(EmptyDoc, frags, 1)

\* Is there a subtree at the path, and which.
RECURSIVE Has(_, _)
Has(t, path) ==
    IF path = <<>> THEN TRUE
    ELSE /\ IsTable(t)
         /\ Head(path) \in DOMAIN t.tab
         /\ Has(t.tab[Head(path)], Tail(path))

RECURSIVE Get(_, _)
Get(t, path) ==
    IF path = <<>> THEN t ELSE Get(t.tab[Head(path)], Tail(path))

\* The fragments the merge is tried on: at "a" a scalar or a table of
\* scalars, at "b" a scalar, either key possibly missing; and the fragment
\* that does not parse.
Scalars == {Leaf(1), Leaf(2)}

InnerTables == {Table(f) : f \in UNION {[S -> Scalars] : S \in SUBSET {"x", "y"}}}

Fragments ==
    {Table(f) : f \in {g \in UNION {[S -> Scalars \cup InnerTables] :
                                        S \in SUBSET {"a", "b"}} :
                          "b" \in DOMAIN g => IsLeaf(g["b"])}}
    \cup {Malformed}

FragmentLists == UNION {[1..n -> Fragments] : n \in 1..MaxFragments}

\* The fragments of the containerd config.  The base settings carry the cri
\* plugin's containerd table; the snapshotter and the proxy-plugin settings
\* are contributed when the fast-image-pull gate is enabled.
CriPlugin == "io.containerd.grpc.v1.cri"

BaseFragment ==
    Table([plugins |-> Table([k \in {CriPlugin} |->
        Table([containerd |-> Table([default_runtime_name |-> Leaf("runc")])])])])

SnapshotterFragment ==
    Table([plugins |-> Table([k \in {CriPlugin} |->
        Table([containerd |-> Table([snapshotter |-> Leaf("soci")])])])])

ProxyPluginFragment ==
    Table([proxy_plugins |-> Table([soci |-> Table([type |-> Leaf("snapshot")])])])

\* Mutant of ContainerdFragments: the gate-conditional fragments are always
\* contributed.
ContainerdFragmentsUngated(gates) ==
    <<BaseFragment, SnapshotterFragment, ProxyPluginFragment>>

\* The ordered fragments combineContainerdConfigs merges for a NodeConfig.
ContainerdFragments(gates) ==
    IF IsFeatureEnabled(FastContainerImagePull, gates)
    THEN <<BaseFragment, SnapshotterFragment, ProxyPluginFragment>>
    ELSE <<BaseFragment>>

\* combineContainerdConfigs(cfg): the merged containerd config, or the
\* merge's error.
combineContainerdConfigs(gates) == Merge(ContainerdFragments(gates))


\* The error daemonManager.StartDaemon(name) returns when it fails.
StartErr(name) == MkErr("StartDaemon failed", "none", 0, name)

\* The error a write step of Configure returns when it fails.
WriteErr(step) == MkErr("write failed", "none", 0, step)

VARIABLES
    featureGates,   \* cfg.Spec.FeatureGates
    dpc,            \* "idle", or the call the running method is about to make
    method,         \* the method called last: "Configure", "EnsureRunning", ...
    started,        \* the StartDaemon calls of the last EnsureRunning, in order
    written,        \* the write steps of the last Configure and their results, in order
    dret,           \* what the method called last returned (NoResult.err before)
    containerdConfig,   \* the merged config writeContainerdConfig wrote last
    fragments,      \* the fragment list given to Merge
    merged          \* what Merge returned (NoMerge before)

dvars == <<featureGates, dpc, method, started, written, dret, containerdConfig,
           fragments, merged>>

vars == <<wvars, dvars>>

\* The daemon as NewContainerdDaemon returns it, no method called yet.
DaemonIdle ==
    /\ dpc = "idle"
    /\ method = "none"
    /\ started = <<>>
    /\ written = <<>>
    /\ dret = NoResult.err
    /\ containerdConfig = NoMerge
    /\ fragments = <<>>
    /\ merged = NoMerge

\* The waiter as NewInstanceConditionWaiter returns it, not yet used.
Init ==
    /\ featureGates = <<>>
    /\ DaemonIdle
    /\ ctorFn \in CtorFns
    /\ wOptions = NewInstanceConditionWaiter(ctorFn)
    /\ client \in Clients
    /\ maxWaitDur = 0
    /\ callFn = NoOptFn
    /\ options = wOptions
    /\ pc = "idle"
    /\ now = 0
    /\ start = 0
    /\ remainingTime = 0
    /\ attempt = 0
    /\ out = NilOut
    /\ err = NilErr
    /\ conditionMet = "none"
    /\ delay = 0
    /\ result = NoResult
    /\ ctxErr = NilErr
    /\ cancelled = FALSE
    /\ cancelPc = "none"
    /\ callsAtCancel = 0
    /\ calls = 0
    /\ sleeps = 0
    /\ sumDelays = 0

\* The context's error once the clock reads t.
CtxErrAt(ctxe, t, deadline) ==
    IF ctxe # NilErr THEN ctxe
    ELSE IF t >= deadline THEN CtxDeadlineExceeded
    ELSE NilErr

\* WaitForOutput up to the loop: the argument checks and the option
\* resolution.  "maxWait" and "minGtMax" are the two early returns.
EntryCheck(d, o) ==
    IF MaxWaitInvalid(d) THEN "maxWait"
    ELSE IF DelayOrderInvalid(o) THEN "minGtMax"
    ELSE "loop"

WaitForOutput(d, fn) ==
    /\ pc = "idle"
    /\ maxWaitDur' = d
    /\ callFn' = fn
    /\ LET o == ResolveOptions(wOptions, fn)
           e == EntryCheck(d, o)
       IN  /\ options' = (IF e = "maxWait" THEN options ELSE o)
           /\ pc' = (IF e = "loop" THEN "call" ELSE "done")
           /\ result' = (IF e = "maxWait" THEN ret(NilOut, ErrMaxWait)
                         ELSE IF e = "minGtMax" THEN ret(NilOut, ErrMinGtMax)
                         ELSE result)
           /\ remainingTime' = (IF e = "loop" THEN d ELSE remainingTime)
    /\ UNCHANGED <<wOptions, ctorFn, client, now, start, attempt, out, err,
                   conditionMet, delay, ctxErr, cancelled, cancelPc,
                   callsAtCancel, calls, sleeps, sumDelays>>
    /\ UNCHANGED dvars

\* The top of the loop: attempt++, start := time.Now(), and the request goes
\* out.
DescribeInstancesCall ==
    /\ pc = "call"
    /\ attempt < MaxAttempts
    /\ attempt' = attempt + 1
    /\ start' = now
    /\ calls' = calls + 1
    /\ pc' = "inflight"
    /\ UNCHANGED <<wOptions, ctorFn, client, maxWaitDur, callFn, options, now,
                   remainingTime, out, err, conditionMet, delay, result, ctxErr,
                   cancelled, cancelPc, callsAtCancel, sleeps, sumDelays>>
    /\ UNCHANGED dvars

\* Mutant of AfterCall: a retryable API error is returned like a terminal
\* one.
AfterCallNoRetry(e, cond) ==
    IF e # NilErr THEN "returnErr"
    ELSE IF cond = "error" THEN "returnCondErr"
         ELSE IF cond = "true" THEN "returnOut"
         ELSE "backoff"

\* Mutant of AfterCall: a response is returned whatever the condition's
\* verdict on it is.
AfterCallVerdictIgnored(e, cond) ==
    IF e # NilErr
    THEN IF ~isErrorRetryable(e) THEN "returnErr" ELSE "backoff"
    ELSE IF cond = "error" THEN "returnCondErr"
         ELSE "returnOut"

\* Mutant of AfterCall: an error of the condition is treated as "not yet".
AfterCallCondErrRetried(e, cond) ==
    IF e # NilErr
    THEN IF ~isErrorRetryable(e) THEN "returnErr" ELSE "backoff"
    ELSE IF cond = "true" THEN "returnOut"
         ELSE "backoff"

\* The branch on (out, err) and on the condition: "returnErr" returns the
\* API error, "returnCondErr" the condition's, "returnOut" the response,
\* "backoff" falls through to the budget check.
AfterCall(e, cond) ==
    IF e # NilErr
    THEN IF ~isErrorRetryable(e) THEN "returnErr" ELSE "backoff"
    ELSE IF cond = "error" THEN "returnCondErr"
         ELSE IF cond = "true" THEN "returnOut"
         ELSE "backoff"

\* `remainingTime < options.MinDelay || remainingTime <= 0`
BudgetSpent(rem, o) == rem < o.MinDelay \/ rem <= 0

\* One iteration from the return of DescribeInstances to the backoff sleep:
\* the classification of the error, the condition, the budget check and the
\* delay computation.  The call is given the context, so it returns by the
\* deadline at the latest.
DescribeInstancesReturn ==
    /\ pc = "inflight"
    /\ \E d \in 0..Min2(MaxApiDur, maxWaitDur - now),
          r \in CallOutcomes(client, calls) :
         LET t == now + d
             branch == AfterCall(r.err, r.cond)
             rem == remainingTime - (t - start)
         IN  /\ now' = t
             /\ ctxErr' = CtxErrAt(ctxErr, t, maxWaitDur)
             /\ out' = r.out
             /\ err' = r.err
             /\ conditionMet' = r.cond
             /\ IF branch = "returnErr"
                THEN /\ pc' = "done"
                     /\ result' = ret(r.out, r.err)
                     /\ UNCHANGED <<remainingTime, delay, sleeps, sumDelays>>
                ELSE IF branch = "returnCondErr"
                THEN /\ pc' = "done"
                     /\ result' = ret(NilOut, CondErr(calls))
                     /\ UNCHANGED <<remainingTime, delay, sleeps, sumDelays>>
                ELSE IF branch = "returnOut"
                THEN /\ pc' = "done"
                     /\ result' = ret(r.out, NilErr)
                     /\ UNCHANGED <<remainingTime, delay, sleeps, sumDelays>>
                ELSE IF BudgetSpent(rem, options)
                THEN /\ pc' = "done"
                     /\ result' = ret(NilOut, ErrExceeded)
                     /\ remainingTime' = rem
                     /\ UNCHANGED <<delay, sleeps, sumDelays>>
                ELSE \E cd \in ComputeDelay(attempt, options.MinDelay,
                                            options.MaxDelay, rem) :
                       IF cd.panic
                       THEN /\ pc' = "panicked"
                            /\ remainingTime' = rem
                            /\ UNCHANGED <<result, delay, sleeps, sumDelays>>
                       ELSE IF cd.err # NilErr
                       THEN /\ pc' = "done"
                            /\ result' = ret(NilOut, ErrComputeDelay(cd.err))
                            /\ remainingTime' = rem
                            /\ UNCHANGED <<delay, sleeps, sumDelays>>
                       ELSE /\ pc' = "sleep"
                            /\ delay' = cd.delay
                            /\ remainingTime' = rem - cd.delay
                            /\ sleeps' = sleeps + 1
                            /\ sumDelays' = sumDelays + cd.delay
                            /\ UNCHANGED result
    /\ UNCHANGED <<wOptions, ctorFn, client, maxWaitDur, callFn, options, start,
                   attempt, cancelled, cancelPc, callsAtCancel, calls>>
    /\ UNCHANGED dvars

\* Mutant of AfterSleep: the error of the sleep is dropped.
AfterSleepErrorDropped(e) == "loop"

\* `if err := smithytime.SleepWithContext(ctx, delay); err != nil`
AfterSleep(e) == IF e # NilErr THEN "return" ELSE "loop"

\* The backoff sleep returns: the timer fired, or the context was done.
SleepReturn ==
    /\ pc = "sleep"
    /\ \E s \in SleepWithContext(ctxErr, delay, now, maxWaitDur) :
         /\ now' = s.now
         /\ ctxErr' = CtxErrAt(ctxErr, s.now, maxWaitDur)
         /\ IF AfterSleep(s.err) = "return"
            THEN /\ pc' = "done"
                 /\ result' = ret(NilOut, ErrCancelled(s.err))
            ELSE /\ pc' = "call"
                 /\ UNCHANGED result
    /\ UNCHANGED <<wOptions, ctorFn, client, maxWaitDur, callFn, options, start,
                   remainingTime, attempt, out, err, conditionMet, delay,
                   cancelled, cancelPc, callsAtCancel, calls, sleeps, sumDelays>>
    /\ UNCHANGED dvars

\* The caller cancels the context it passed to WaitForOutput, while the
\* waiter is blocked in the API call or in the backoff sleep.
Cancel ==
    /\ pc \in {"inflight", "sleep"}
    /\ ~cancelled
    /\ cancelled' = TRUE
    /\ ctxErr' = (IF ctxErr = NilErr THEN CtxCanceled ELSE ctxErr)
    /\ cancelPc' = pc
    /\ callsAtCancel' = calls
    /\ UNCHANGED <<wOptions, ctorFn, client, maxWaitDur, callFn, options, pc, now,
                   start, remainingTime, attempt, out, err, conditionMet, delay,
                   result, calls, sleeps, sumDelays>>
    /\ UNCHANGED dvars

Next ==
    \/ \E d \in (-1)..MaxBudget, fn \in OptFns : WaitForOutput(d, fn)
    \/ DescribeInstancesCall
    \/ DescribeInstancesReturn
    \/ SleepReturn
    \/ Cancel

Spec == Init /\ [][Next]_vars

\* --------------------------------------------------------- containerd daemon
\* The waiter as the daemon's specification keeps it: constructed with no
\* options and never used.
WaiterIdle ==
    /\ ctorFn = NoOptFn
    /\ wOptions = NewInstanceConditionWaiter(ctorFn)
    /\ client = FreeClient
    /\ maxWaitDur = 0
    /\ callFn = NoOptFn
    /\ options = wOptions
    /\ pc = "idle"
    /\ now = 0
    /\ start = 0
    /\ remainingTime = 0
    /\ attempt = 0
    /\ out = NilOut
    /\ err = NilErr
    /\ conditionMet = "none"
    /\ delay = 0
    /\ result = NoResult
    /\ ctxErr = NilErr
    /\ cancelled = FALSE
    /\ cancelPc = "none"
    /\ callsAtCancel = 0
    /\ calls = 0
    /\ sleeps = 0
    /\ sumDelays = 0

DaemonInit ==
    /\ featureGates \in GateSets
    /\ DaemonIdle
    /\ WaiterIdle

\* Configure's write steps, in the order of the calls.
ConfigureSteps ==
    <<"writeBaseRuntimeSpec", "writeSnapshotterConfig", "writeContainerdConfig">>

\* The orchestrator calls Configure(cfg).
Configure ==
    /\ dpc = "idle"
    /\ method' = "Configure"
    /\ written' = <<>>
    /\ dpc' = ConfigureSteps[1]
    /\ UNCHANGED <<featureGates, started, dret, containerdConfig, fragments, merged>>
    /\ UNCHANGED wvars

\* A write step as Configure's log keeps it.
WriteCall(step, e) == [step |-> step, err |-> e]

\* Mutant of AfterWrite: a failed step does not stop Configure.
AfterWriteErrIgnored(i, e) ==
    IF i = Len(ConfigureSteps) THEN "return" ELSE "next"

\* After write step i returned e: "return" returns e, "next" goes on to
\* step i+1.  The last step's result is returned whatever it is.
AfterWrite(i, e) ==
    IF i = Len(ConfigureSteps) THEN "return"
    ELSE IF e # NilErr THEN "return"
    ELSE "next"

\* What write step i does given that its file write succeeds or fails:
\* the error it returns and the containerd config it leaves on disk.
\* writeContainerdConfig first combines the config fragments and returns the
\* merge's error without writing.
WriteStep(i, ok, gates, onDisk) ==
    IF ConfigureSteps[i] = "writeContainerdConfig"
    THEN LET m == combineContainerdConfigs(gates)
         IN  IF m.err # NilErr THEN [err |-> m.err, config |-> onDisk]
             ELSE IF ok THEN [err |-> NilErr, config |-> m]
             ELSE [err |-> WriteErr(ConfigureSteps[i]), config |-> onDisk]
    ELSE [err |-> IF ok THEN NilErr ELSE WriteErr(ConfigureSteps[i]),
          config |-> onDisk]

\* Configure runs its next write step, which succeeds or fails.
ConfigureWrite(ok) ==
    /\ method = "Configure"
    /\ \E i \in 1..Len(ConfigureSteps) :
         /\ dpc = ConfigureSteps[i]
         /\ LET w == WriteStep(i, ok, featureGates, containerdConfig)
            IN  /\ written' = Append(written, WriteCall(ConfigureSteps[i], w.err))
                /\ containerdConfig' = w.config
                /\ IF AfterWrite(i, w.err) = "return"
                   THEN dpc' = "idle" /\ dret' = w.err
                   ELSE dpc' = ConfigureSteps[i + 1] /\ UNCHANGED dret
    /\ UNCHANGED <<featureGates, method, started, fragments, merged>>
    /\ UNCHANGED wvars

\* The orchestrator calls EnsureRunning(cfg).
EnsureRunning ==
    /\ dpc = "idle"
    /\ method' = "EnsureRunning"
    /\ started' = <<>>
    /\ dpc' = "startPrimary"
    /\ UNCHANGED <<featureGates, written, dret, containerdConfig, fragments, merged>>
    /\ UNCHANGED wvars

\* A StartDaemon call as EnsureRunning's log keeps it.
StartCall(name, e) == [name |-> name, err |-> e]

\* Mutant of AfterPrimaryStart: the primary unit's error is not looked at.
AfterPrimaryStartErrIgnored(e, gates) ==
    IF IsFeatureEnabled(FastContainerImagePull, gates) THEN "startAux"
    ELSE "returnNil"

\* Mutant of AfterPrimaryStart: the feature gate is not looked at.
AfterPrimaryStartGateIgnored(e, gates) ==
    IF e # NilErr THEN "return" ELSE "startAux"

\* After StartDaemon(ContainerdDaemonName) returned e: "return" returns e,
\* "startAux" goes on to start the soci snapshotter socket, "returnNil"
\* returns nil.
AfterPrimaryStart(e, gates) ==
    IF e # NilErr THEN "return"
    ELSE IF IsFeatureEnabled(FastContainerImagePull, gates) THEN "startAux"
    ELSE "returnNil"

\* EnsureRunning's first unit.
PrimaryUnit == ContainerdDaemonName

\* EnsureRunning's gate-conditional unit.
AuxiliaryUnit == SociSnapshotterSocketName

\* EnsureRunning calls StartDaemon for the primary unit, which succeeds or
\* fails.
StartPrimary(ok) ==
    /\ dpc = "startPrimary"
    /\ LET e == IF ok THEN NilErr ELSE StartErr(PrimaryUnit)
           b == AfterPrimaryStart(e, featureGates)
       IN  /\ started' = Append(started, StartCall(PrimaryUnit, e))
           /\ IF b = "return" THEN dpc' = "idle" /\ dret' = e
              ELSE IF b = "returnNil" THEN dpc' = "idle" /\ dret' = NilErr
              ELSE dpc' = "startAux" /\ UNCHANGED dret
    /\ UNCHANGED <<featureGates, method, written, containerdConfig, fragments, merged>>
    /\ UNCHANGED wvars

\* EnsureRunning calls StartDaemon for the auxiliary unit and returns what
\* it returned.
StartAux(ok) ==
    /\ dpc = "startAux"
    /\ LET e == IF ok THEN NilErr ELSE StartErr(AuxiliaryUnit)
       IN  /\ started' = Append(started, StartCall(AuxiliaryUnit, e))
           /\ dpc' = "idle"
           /\ dret' = e
    /\ UNCHANGED <<featureGates, method, written, containerdConfig, fragments, merged>>
    /\ UNCHANGED wvars

\* The orchestrator calls PostLaunch(cfg).
PostLaunch ==
    /\ dpc = "idle"
    /\ method' = "PostLaunch"
    /\ dret' = NilErr
    /\ UNCHANGED <<featureGates, dpc, started, written, containerdConfig, fragments, merged>>
    /\ UNCHANGED wvars

DaemonNext ==
    \/ Configure
    \/ \E ok \in BOOLEAN : ConfigureWrite(ok)
    \/ EnsureRunning
    \/ \E ok \in BOOLEAN : StartPrimary(ok)
    \/ \E ok \in BOOLEAN : StartAux(ok)
    \/ PostLaunch

DaemonSpec == DaemonInit /\ [][DaemonNext]_vars

\* ------------------------------------------------------------ config composer
\* The daemon as the composer's specification keeps it: no gate set, no
\* method called.
ComposerInit ==
    /\ featureGates = <<>>
    /\ dpc = "idle"
    /\ method = "none"
    /\ started = <<>>
    /\ written = <<>>
    /\ dret = NoResult.err
    /\ containerdConfig = NoMerge
    /\ fragments \in FragmentLists
    /\ merged = NoMerge
    /\ WaiterIdle

\* A caller merges its fragment list.
MergeFragments ==
    /\ merged = NoMerge
    /\ merged' = Merge(fragments)
    /\ UNCHANGED <<featureGates, dpc, method, started, written, dret,
                   containerdConfig, fragments>>
    /\ UNCHANGED wvars

ComposerNext == MergeFragments

ComposerSpec == ComposerInit /\ [][ComposerNext]_vars

\* ==================================================================== claims
\* The API error of the last call is one the retry classifier calls terminal.
TerminalApiError == err # NilErr /\ err.class = "terminal"

\* C1: WaitForOutput called with maxWaitDur <= 0 has returned the
\* "maximum wait time ... must be greater than zero" error with no response
\* and without a single DescribeInstances call, whatever the options and the
\* client are.
C1_NonPositiveMaxWaitRejected ==
    (pc # "idle" /\ maxWaitDur <= 0)
        => /\ pc = "done"
           /\ result = ret(NilOut, ErrMaxWait)
           /\ calls = 0

\* C1 witness: a call with maxWaitDur = 0 whose option function also sets
\* MinDelay has returned.
C1_Witness ==
    pc = "done" /\ maxWaitDur = 0 /\ callFn.setMin /\ result.err = ErrMaxWait

\* The options as the claim resolves them: the constructor's defaults, the
\* constructor's option functions, the per-call option functions, and a
\* MaxDelay <= 0 replaced by 120 s.
C2_MinDelay ==
    IF callFn.setMin THEN callFn.min
    ELSE IF ctorFn.setMin THEN ctorFn.min
    ELSE DefaultMinDelay

C2_MaxDelay ==
    LET m == IF callFn.setMax THEN callFn.max
             ELSE IF ctorFn.setMax THEN ctorFn.max
             ELSE DefaultMaxDelay
    IN  IF m <= 0 THEN DefaultMaxDelay ELSE m

\* C2: with maxWaitDur > 0, WaitForOutput returns the "minimum waiter delay
\* must be lesser than or equal to maximum waiter delay" error, with no API
\* call, if the resolved MinDelay exceeds the resolved MaxDelay, and never
\* returns that error otherwise.
C2_DelayOrderChecked ==
    (pc # "idle" /\ maxWaitDur > 0)
        => IF C2_MinDelay > C2_MaxDelay
           THEN /\ pc = "done"
                /\ result = ret(NilOut, ErrMinGtMax)
                /\ calls = 0
           ELSE result.err # ErrMinGtMax

\* C2 witness: the default MinDelay exceeds a MaxDelay set at construction
\* and not overridden by the call, and the call has been rejected.
C2_Witness ==
    /\ pc = "done" /\ maxWaitDur > 0
    /\ result.err = ErrMinGtMax
    /\ ctorFn.setMax /\ ~callFn.setMax /\ ~callFn.setMin /\ ~ctorFn.setMin

\* C3: once a DescribeInstances call has returned a terminal error,
\* WaitForOutput has returned exactly that error: it came from the last
\* call issued (so a terminal error on the first call leaves the call count
\* at 1), the condition was not evaluated and no backoff sleep was started
\* after it.
C3_TerminalErrorReturnedAtOnce ==
    TerminalApiError
        => /\ pc = "done"
           /\ result.err = err
           /\ err.call = calls
           /\ conditionMet = "none"
           /\ sleeps = calls - 1

\* C3 witness: the first call returned a terminal error and the wait is
\* over after one call.
C3_Witness ==
    TerminalApiError /\ pc = "done" /\ calls = 1 /\ result.err = ApiErr("terminal", 1)

\* WaitForOutput returned a response and no error.
Succeeded == pc = "done" /\ result.err = NilErr

\* C4 as stated: against a client that fails N times with a retryable error
\* and then answers with a response the condition accepts, a wait with
\* valid parameters (it got as far as its first call, with a positive
\* MinDelay) that nobody cancels ends in success after exactly N+1 calls,
\* the clock at or past the sum of the computed delays.
C4_AsClaimed ==
    (client.scripted /\ pc = "done" /\ calls >= 1 /\ options.MinDelay > 0
       /\ ~cancelled)
        => /\ Succeeded
           /\ calls = client.failN + 1
           /\ now >= sumDelays

\* The failures a wait against the scripted client can end with.
C4_Failures ==
    {ErrExceeded, ErrCancelled(CtxCanceled), ErrCancelled(CtxDeadlineExceeded),
     ErrComputeDelay(ErrMinDelayZero)}

\* C4, amended: against the scripted client WaitForOutput never issues more
\* than N+1 calls; it has succeeded exactly when it has returned after N+1
\* calls, then with the response of call N+1 and the clock at or past the
\* sum of the computed delays; a wait that returns earlier returns the
\* deadline-exceeded failure, the cancelled error or the delay-computation
\* error.
C4_StubSucceedsIfBudgetLasts ==
    client.scripted
        => /\ calls <= client.failN + 1
           /\ (pc = "done" /\ maxWaitDur > 0 /\ ~DelayOrderInvalid(options))
                => /\ Succeeded <=> calls = client.failN + 1
                   /\ Succeeded => /\ result.out = Resp(client.failN + 1)
                                   /\ now >= sumDelays
                   /\ ~Succeeded => result.err \in C4_Failures

\* C4 witness: one retryable failure, one backoff sleep of a positive
\* delay, then success on the second call.
C4_Witness ==
    /\ client = StubClient(1) /\ Succeeded /\ calls = 2
    /\ sumDelays > 0 /\ options.MinDelay > 0

\* The last call neither ended the wait nor satisfied the condition: it
\* returned a retryable or timeout error, or a response the condition
\* rejected.
Unsatisfied ==
    /\ calls >= 1
    /\ \/ err # NilErr /\ err.class \in {"timeout", "retryable"}
       \/ err = NilErr /\ conditionMet = "false"

\* The time budget is used up: the deadline has been reached, or what is
\* left of maxWaitDur is below MinDelay or not positive.
BudgetExpired ==
    \/ now >= maxWaitDur
    \/ remainingTime < options.MinDelay
    \/ remainingTime <= 0

\* C5: WaitForOutput succeeds only on a response the condition accepted,
\* and a wait that ended on an unsatisfied call with its time budget used up
\* returned the "exceeded max wait time" failure (and no response), which
\* is neither the call's error, nor the condition's, nor the cancelled
\* error.
C5_BudgetExpiryIsDeadlineExceeded ==
    /\ Succeeded => conditionMet = "true"
    /\ (pc = "done" /\ Unsatisfied /\ BudgetExpired)
          => result = ret(NilOut, ErrExceeded)

\* C5 holds of every wait whose MinDelay is positive.
C5_ForPositiveMinDelay ==
    options.MinDelay > 0 => C5_BudgetExpiryIsDeadlineExceeded

\* C6: once the condition has returned an error on a response, WaitForOutput
\* has returned that error and no response; the response came from the last
\* call issued and no backoff sleep was started after it.
C6_ConditionErrorAborts ==
    conditionMet = "error"
        => /\ pc = "done"
           /\ result = ret(NilOut, CondErr(calls))
           /\ err = NilErr
           /\ out = Resp(calls)
           /\ sleeps = calls - 1

\* C6 witness: the condition failed on the response of the second call.
C6_Witness ==
    conditionMet = "error" /\ pc = "done" /\ calls = 2 /\ result.err = CondErr(2)

\* C7: the delay about to be slept lies between 0 and the budget that was
\* left when it was computed (so subtracting it neither raises the budget
\* nor makes it negative), and the time spent so far plus this delay does
\* not pass maxWaitDur.
C7_DelayWithinBudget ==
    pc = "sleep"
        => /\ 0 <= delay
           /\ delay <= remainingTime + delay
           /\ now + delay <= maxWaitDur

\* C7 holds of every wait whose MinDelay is positive.
C7_ForPositiveMinDelay ==
    options.MinDelay > 0 => C7_DelayWithinBudget

\* WaitForOutput returned the "request cancelled while waiting" error.
ReturnedCancelled ==
    /\ pc = "done"
    /\ result.out = NilOut
    /\ result.err.msg = "request cancelled while waiting"

\* C8 as stated: once the caller has cancelled a wait with valid delays,
\* whether it was blocked in the API call or in the sleep, no further API
\* call is issued and the wait returns the cancelled error.
C8_AsClaimed ==
    (cancelled /\ options.MinDelay > 0)
        => /\ calls = callsAtCancel
           /\ pc = "done" => ReturnedCancelled

\* The waiter is blocked in a backoff sleep whose timer is still pending
\* while its context is done or its deadline falls before the timer.
SleepInterrupted ==
    /\ pc = "sleep"
    /\ delay > 0
    /\ (ctxErr # NilErr \/ now + delay >= maxWaitDur)

\* C8, amended: when the cancellation signal or the deadline fires while
\* WaitForOutput is blocked in a backoff sleep whose timer has not expired,
\* the wait ends there: it returns the "request cancelled while waiting"
\* error with no response and issues no further API call.  (A signal that
\* arrives during an API call is handed to the call; WaitForOutput treats
\* what the call returns as it always does, and returns the cancelled error
\* only from such a sleep.)
C8_InterruptedSleepEndsWait ==
    [][(SleepInterrupted /\ pc' # "sleep")
          => (ReturnedCancelled' /\ calls' = calls
              /\ result'.err.wraps \in {CtxCanceled.msg, CtxDeadlineExceeded.msg})]_vars

\* C8 witness: the caller cancelled during a sleep of a positive delay and
\* the wait returned the cancelled error without another call.
C8_Witness ==
    /\ cancelPc = "sleep" /\ delay > 0 /\ options.MinDelay > 0
    /\ pc = "done" /\ result = ret(NilOut, ErrCancelled(CtxCanceled))
    /\ calls = callsAtCancel

\* The fast-image-pull gate is in the gate set and set to true.
FastImagePullOn ==
    /\ "fast-image-pull" \in DOMAIN featureGates
    /\ featureGates["fast-image-pull"] = TRUE

\* EnsureRunning is the method called last and it has returned.
EnsureRunningReturned == method = "EnsureRunning" /\ dpc = "idle"

\* C9: with the fast-image-pull gate enabled, EnsureRunning starts
\* "containerd" first and "soci-snapshotter.socket" second, the second only
\* after the first start succeeded; a failed first start is returned as it
\* is with the second unit never started; and EnsureRunning returns nil only
\* if both starts succeeded.
C9_PrimaryThenAuxiliary ==
    (method = "EnsureRunning" /\ FastImagePullOn)
        => /\ Len(started) <= 2
           /\ Len(started) >= 1 => started[1].name = "containerd"
           /\ Len(started) = 2
                => /\ started[2].name = "soci-snapshotter.socket"
                   /\ started[1].err = NilErr
           /\ dpc = "idle"
                => /\ Len(started) >= 1
                   /\ started[1].err # NilErr
                        => Len(started) = 1 /\ dret = started[1].err
                   /\ started[1].err = NilErr
                        => Len(started) = 2 /\ dret = started[2].err
                   /\ dret = NilErr
                        => \A i \in 1..2 : started[i].err = NilErr

\* C9 witness: gate enabled, both units started in order, nil returned.
C9_Witness ==
    /\ EnsureRunningReturned /\ FastImagePullOn
    /\ Len(started) = 2 /\ dret = NilErr

\* C10: with the fast-image-pull gate set to false or missing from the gate
\* set (the empty set included), EnsureRunning starts "containerd" and
\* nothing else and returns what that start returned: nil when it
\* succeeded, so a missing gate is no error.
C10_PrimaryOnly ==
    (method = "EnsureRunning" /\ ~FastImagePullOn)
        => /\ Len(started) <= 1
           /\ \A i \in 1..Len(started) : started[i].name = "containerd"
           /\ dpc = "idle"
                => /\ Len(started) = 1
                   /\ dret = started[1].err

\* C10 witness: EnsureRunning returned nil for an empty gate set after one
\* start.
C10_Witness ==
    /\ EnsureRunningReturned /\ DOMAIN featureGates = {}
    /\ Len(started) = 1 /\ dret = NilErr

\* The paths of the merged containerd config the fast-image-pull feature
\* is read from.
CriContainerdPath == <<"plugins", "io.containerd.grpc.v1.cri", "containerd">>

SnapshotterPath == CriContainerdPath \o <<"snapshotter">>

ProxyPluginTypePath == <<"proxy_plugins", "soci", "type">>

\* The config at the path is the given scalar.
IsScalarAt(doc, path, v) == Has(doc, path) /\ Get(doc, path) = Leaf(v)

\* C11: when Configure has come to combine the containerd config, for every
\* gate set of the NodeConfig, combineContainerdConfigs has merged without
\* error (Configure fails there with a write error at most) and the merged
\* config has the cri plugin's containerd table; with the fast-image-pull
\* gate enabled its snapshotter is "soci" and proxy_plugins.soci.type is
\* "snapshot"; with the gate disabled or absent the snapshotter is not
\* "soci".  A Configure that returned nil left exactly this config on disk.
C11_SociConfigFollowsGate ==
    (method = "Configure" /\ Len(written) = Len(ConfigureSteps))
        => LET m == combineContainerdConfigs(featureGates)
           IN  /\ m.err = NilErr
               /\ dret # NilErr => dret = WriteErr("writeContainerdConfig")
               /\ Has(m.doc, CriContainerdPath)
               /\ IsTable(Get(m.doc, CriContainerdPath))
               /\ FastImagePullOn
                    => /\ IsScalarAt(m.doc, SnapshotterPath, "soci")
                       /\ IsScalarAt(m.doc, ProxyPluginTypePath, "snapshot")
               /\ ~FastImagePullOn => ~IsScalarAt(m.doc, SnapshotterPath, "soci")
               /\ dret = NilErr => containerdConfig = m

\* C11 witness: with the gate enabled Configure returned nil and the config
\* it wrote has the soci snapshotter next to the base settings.
C11_Witness ==
    /\ method = "Configure" /\ dpc = "idle" /\ dret = NilErr
    /\ FastImagePullOn
    /\ IsScalarAt(containerdConfig.doc, SnapshotterPath, "soci")
    /\ IsScalarAt(containerdConfig.doc, ProxyPluginTypePath, "snapshot")
    /\ IsScalarAt(containerdConfig.doc,
                  CriContainerdPath \o <<"default_runtime_name">>, "runc")

\* The keys and the paths of the fragments the merge is tried on.
FragmentKeys == {"a", "b", "x", "y"}

FragmentPaths ==
    {<<k>> : k \in FragmentKeys} \cup {<<k, l>> : k, l \in FragmentKeys}

\* The tree has a scalar at the path.
LeafAt(t, path) == Has(t, path) /\ IsLeaf(Get(t, path))

\* The fragment decides what is at the path: it has the path, or it has a
\* scalar where the path goes through (which replaces the table there).
Decides(f, path) ==
    \/ Has(f, path)
    \/ \E n \in 1..(Len(path) - 1) : LeafAt(f, SubSeq(path, 1, n))

\* The last fragment of the list that decides the path, 0 if none does.
LastDecider(frags, path) ==
    LET D == {i \in 1..Len(frags) : Decides(frags[i], path)}
    IN  IF D = {} THEN 0 ELSE CHOOSE i \in D : \A j \in D : j <= i

ExampleAx1 == Table([a |-> Table([x |-> Leaf(1)])])

ExampleAy2 == Table([a |-> Table([y |-> Leaf(2)])])

ExampleAx2 == Table([a |-> Table([x |-> Leaf(2)])])

\* C12: the merge of a list of well-formed fragments is last-writer-wins at
\* the leaf and recursive on tables: at every path the merged document has
\* what the last fragment that decides the path has there (its scalar, or a
\* table), and nothing where no fragment decides the path; so a key of one
\* fragment only is kept and a key of several has the later value, also
\* inside a nested table.  {a:{x:1}} then {a:{y:2}} gives {a:{x:1,y:2}}, and
\* {a:{x:1}} then {a:{x:2}} gives {a:{x:2}}.
C12_LastWriterWinsAtLeaf ==
    (merged # NoMerge /\ \A i \in 1..Len(fragments) : IsTable(fragments[i]))
        => /\ merged.err = NilErr
           /\ \A p \in FragmentPaths :
                LET j == LastDecider(fragments, p)
                IN  IF j = 0 THEN ~Has(merged.doc, p)
                    ELSE IF LeafAt(fragments[j], p)
                    THEN LeafAt(merged.doc, p)
                         /\ Get(merged.doc, p) = Get(fragments[j], p)
                    ELSE IF Has(fragments[j], p)
                    THEN Has(merged.doc, p) /\ IsTable(Get(merged.doc, p))
                    ELSE ~Has(merged.doc, p)
           /\ fragments = <<ExampleAx1, ExampleAy2>>
                => merged.doc = Table([a |-> Table([x |-> Leaf(1), y |-> Leaf(2)])])
           /\ fragments = <<ExampleAx1, ExampleAx2>>
                => merged.doc = ExampleAx2

\* C12 witness: {a:{x:1}} and {a:{y:2}} have been merged into a document
\* whose table a has both keys.
C12_Witness ==
    /\ fragments = <<ExampleAx1, ExampleAy2>>
    /\ merged.err = NilErr
    /\ LeafAt(merged.doc, <<"a", "x">>) /\ LeafAt(merged.doc, <<"a", "y">>)

\* The write steps of the log, in order.
WrittenSteps == [i \in 1..Len(written) |-> written[i].step]

\* C20: Configure runs writeBaseRuntimeSpec, writeSnapshotterConfig and
\* writeContainerdConfig in this order and fails fast: only the last step it
\* ran can have failed, it returns that step's result, and it returns nil
\* only after all three steps succeeded; the config an earlier Configure
\* wrote stays on disk when a step fails.  Configure and PostLaunch make no
\* StartDaemon call, and PostLaunch returns nil.
C20_ConfigureFailsFast ==
    [][/\ method' = "Configure"
          => /\ Len(written') <= Len(ConfigureSteps)
             /\ WrittenSteps' = SubSeq(ConfigureSteps, 1, Len(written'))
             /\ \A i \in 1..(Len(written') - 1) : written'[i].err = NilErr
             /\ started' = started
             /\ dpc' = "idle"
                  => /\ Len(written') >= 1
                     /\ dret' = written'[Len(written')].err
                     /\ dret' = NilErr => Len(written') = Len(ConfigureSteps)
             /\ (written' # <<>> /\ written'[Len(written')].err # NilErr)
                  => /\ dpc' = "idle"
                     /\ containerdConfig' = containerdConfig
       /\ method' = "PostLaunch"
          => /\ dpc' = "idle"
             /\ dret' = NilErr
             /\ started' = started
             /\ written' = written
             /\ containerdConfig' = containerdConfig]_vars

\* C20 witness: the second write step failed after the first had succeeded,
\* and Configure returned its error without running the third.
C20_Witness ==
    /\ method = "Configure" /\ dpc = "idle"
    /\ Len(written) = 2
    /\ written[1] = WriteCall("writeBaseRuntimeSpec", NilErr)
    /\ written[2].err # NilErr
    /\ dret = WriteErr("writeSnapshotterConfig")

\* The last call returned an error the retry classifier calls retryable: a
\* timeout or a retryable error.
RetryableApiError == err # NilErr /\ err.class \in {"timeout", "retryable"}

\* C13: WaitForOutput never returns a retryable or timeout API error as its
\* own result; after such an error it goes on to the backoff, and a wait
\* that nobody cancelled and that ended on such an error ended because the
\* budget was used up, with the "exceeded max wait time" failure.
C13_RetryableErrorOnlyDrivesBackoff ==
    /\ pc = "done" => result.err.class \notin {"timeout", "retryable"}
    /\ RetryableApiError => pc \in {"sleep", "call", "inflight", "done"}
    /\ (RetryableApiError /\ pc = "done" /\ ~cancelled)
          => /\ result = ret(NilOut, ErrExceeded)
             /\ BudgetSpent(remainingTime, options)

\* C13 holds of every wait whose MinDelay is positive.
C13_ForPositiveMinDelay ==
    options.MinDelay > 0 => C13_RetryableErrorOnlyDrivesBackoff

\* The kinds of result a wait that entered its loop can end with: success, a
\* terminal error (of the API or of the condition), the deadline-exceeded
\* failure, the cancelled error.
TerminalKinds ==
    \/ result.err = NilErr
    \/ result.err.class = "terminal"
    \/ result.err = CondErr(calls)
    \/ result.err = ErrExceeded
    \/ result.err.msg = "request cancelled while waiting"

C14_UsesBudgetAboveMinDelay ==
    options.MinDelay > 0
        => /\ (pc = "sleep" /\ remainingTime + delay # options.MinDelay)
                => (now - start) + delay > 0
           /\ (pc = "done" /\ calls >= 1) => TerminalKinds

\* Once WaitForOutput has returned there is no further call or sleep and
\* its result stays what it is.
C14_TerminalIsFinal ==
    [][pc = "done" => /\ pc' = "done" /\ result' = result
                      /\ calls' = calls /\ sleeps' = sleeps]_vars

\* C15: after an unsatisfied iteration that leaves a remaining budget
\* exactly equal to MinDelay, WaitForOutput does not go on to a sleep and a
\* further call: it has returned the "exceeded max wait time" failure.
\* (In a sleep, the budget the iteration left is remainingTime + delay.)
C15_EqualityStops ==
    (Unsatisfied /\ pc \in {"sleep", "done"} /\ ~cancelled
       /\ remainingTime + (IF pc = "sleep" THEN delay ELSE 0) = options.MinDelay)
        => /\ pc = "done"
           /\ result = ret(NilOut, ErrExceeded)

\* C15 holds but at equality: with less than MinDelay left the wait stops.
C15_BelowMinDelayStops ==
    (Unsatisfied /\ pc \in {"sleep", "done"} /\ ~cancelled
       /\ remainingTime + (IF pc = "sleep" THEN delay ELSE 0) < options.MinDelay)
        => /\ pc = "done"
           /\ result = ret(NilOut, ErrExceeded)

\* A DescribeInstances call has returned.
CallReturned == calls >= 2 \/ (calls = 1 /\ pc # "inflight")

\* The classes of error the claim calls retryable.
RetryClasses == {"timeout", "retryable"}

\* C16 as stated: isErrorRetryable does not call a nil error retryable, and
\* calls a non-nil error retryable exactly when it is a timeout or a
\* retryable error.
C16_AsClaimed ==
    CallReturned
        => /\ err = NilErr => ~isErrorRetryable(err)
           /\ err # NilErr => (isErrorRetryable(err) <=> err.class \in RetryClasses)

\* C16, amended: isErrorRetryable answers true for a nil error, but
\* WaitForOutput asks it about non-nil errors only: after a nil error the
\* condition has been evaluated, after a non-nil error it has not.  For a
\* non-nil error isErrorRetryable answers true exactly when the error is a
\* timeout or a retryable error; both go on to the backoff the same way
\* (the error is not returned), and any other error is returned as it is.
C16_ClassifierAskedOnErrorsOnly ==
    /\ isErrorRetryable(NilErr)
    /\ CallReturned
         => /\ err = NilErr => conditionMet # "none"
            /\ err # NilErr
                 => /\ conditionMet = "none"
                    /\ isErrorRetryable(err) <=> err.class \in RetryClasses
                    /\ isErrorRetryable(err)
                         => /\ pc \in {"sleep", "call", "inflight", "done", "panicked"}
                            /\ pc = "done" => result.err # err
                    /\ ~isErrorRetryable(err)
                         => pc = "done" /\ result.err = err

\* C16 witness: a timeout error on the first call was followed by a second
\* call, whose response the condition has been asked about.
C16_Witness ==
    /\ calls = 2 /\ CallReturned /\ pc # "inflight"
    /\ err = NilErr /\ conditionMet = "false"
    /\ sleeps >= 1

\* C17: with 0 < MinDelay <= MaxDelay, the delay slept before a further API
\* call is at least MinDelay and at most MaxDelay.  (WaitForOutput is about
\* to issue a further call when its sleep has returned without error; delay
\* is what it slept.)
C17_DelayBetweenRetries ==
    (pc = "call" /\ calls >= 1
       /\ 0 < options.MinDelay /\ options.MinDelay <= options.MaxDelay)
        => /\ options.MinDelay <= delay
           /\ delay <= options.MaxDelay

\* The upper half of C17 holds.
C17_AtMostMaxDelay ==
    (pc = "call" /\ calls >= 1
       /\ 0 < options.MinDelay /\ options.MinDelay <= options.MaxDelay)
        => delay <= options.MaxDelay

\* WaitForOutput failed because of the value of maxWaitDur, MinDelay or
\* MaxDelay: it returned one of the three errors about them, or the delay
\* computation panicked.
ParameterFailure ==
    \/ pc = "panicked"
    \/ /\ pc = "done"
       /\ result.err.msg \in {ErrMaxWait.msg, ErrMinGtMax.msg,
                              ErrComputeDelay(NilErr).msg}

\* C18: whenever WaitForOutput fails because of the value of maxWaitDur,
\* MinDelay or MaxDelay, it does so before any API call.
C18_ParametersCaughtBeforeIO ==
    ParameterFailure => calls = 0

\* C19: WaitForOutput has succeeded exactly when the condition was true on
\* the response of the last call it issued, and then it returned that
\* response; the first response the condition accepts ends the wait; and
\* every failure but a terminal API error comes with no response.
C19_SuccessIsLastResponse ==
    /\ Succeeded
         => /\ conditionMet = "true"
            /\ err = NilErr
            /\ out = Resp(calls)
            /\ result.out = out
    /\ conditionMet = "true" => Succeeded
    /\ (pc = "done" /\ result.err # NilErr /\ result.err.class # "terminal")
         => result.out = NilOut

\* C19 witness: the condition rejected the first response and accepted the
\* second, which was returned.
C19_Witness ==
    /\ Succeeded /\ ~client.scripted
    /\ calls = 2 /\ sleeps = 1
    /\ result.out = Resp(2)

====
